---- MODULE Spec2Model ----
(***************************************************************************)
(* Brightness scoring of halo_weave: the capture server writes per-step    *)
(* attention records into a capture directory, and one scoring strategy    *)
(* per run walks the sorted step files and keeps one score per token       *)
(* position.                                                               *)
(*                                                                         *)
(* Numbers.  An attention value is an integer count of 1/One, so that the  *)
(* float 1.0 of the optimized threshold is One.  An aggregated vector is   *)
(* kept as its column sums together with the row count layers*heads: the   *)
(* aggregated value of context index i is v[i+1] / (rows * One).  Every    *)
(* comparison and floor division of the code is done by cross              *)
(* multiplication, so it is exact.  Real-valued scores of the cumulative   *)
(* strategy are fractions <<numerator, denominator>> in lowest terms.      *)
(***************************************************************************)
EXTENDS Integers, Sequences, FiniteSets, TLC

VARIABLES
    format,        \* "legacy" (token_N.json) or "split" (_meta.json + _attn.bin)
    all_tokens,    \* BrightnessStrategy.all_tokens (= prompt_tokens)
    files,         \* the step files of the capture directory, in sorted order
    pc,            \* "capture", "running", "returned", "done", "crashed"
    strategy,      \* the strategy class of this run
    parameters,    \* BrightnessStrategy.parameters
    idx,           \* number of step files the loop of compute_scores has consumed
    skipped,       \* local `skipped` of compute_scores
    votes,         \* VotingStrategy: defaultdict(int)
    scores,        \* dict scoreboard of the other dict based strategies
    scores_array,  \* MagnitudeVotingStrategyV3: array indexed by position
    result,        \* the ScoreMap compute_scores returned
    sentences,     \* the list _group_tokens_by_sentence returned to run()
    capture_dir,   \* the names of the step files in the capture directory
    loaded_files   \* the list of names _load_token_files returned

vars == <<format, all_tokens, files, pc, strategy, parameters, idx, skipped,
          votes, scores, scores_array, result, sentences, capture_dir,
          loaded_files>>

(***************************************************************************)
(* Bounds of the model and constants of the program                        *)
(***************************************************************************)
MaxSteps == 2

One == 20

InitialScore == 255

\* the steps of a long capture: 255 and one more
LongRun == 256

Int32Max == 2147483647

Int32Min == -Int32Max - 1

(***************************************************************************)
(* Small helpers                                                           *)
(***************************************************************************)
EmptyMap == [k \in {} |-> 0]

Bump(f, k, d) ==
    IF k \in DOMAIN f THEN [f EXCEPT ![k] = @ + d] ELSE f @@ (k :> d)

RECURSIVE SumSeq(_)
SumSeq(s) ==
    IF s = <<>> THEN 0 ELSE Head(s) + SumSeq(Tail(s))

(***************************************************************************)
(* Token sets: metadata.json prompt_tokens, or the export file             *)
(***************************************************************************)
Tok(p, t, s, r, d) ==
    [position |-> p, turn_id |-> t, sentence_id |-> s, message_role |-> r,
     deleted |-> d]

\* The token lists a capture can come with.  Sentence ids restart in every
\* turn; the last list carries a token flagged deleted.
TokenFiles ==
    { <<Tok(0, 0, 0, "system", FALSE)>>,
      <<Tok(0, 0, 0, "system", FALSE), Tok(1, 0, 0, "system", FALSE)>>,
      <<Tok(0, 0, 0, "system", FALSE), Tok(1, 1, 0, "user", FALSE),
        Tok(2, 1, 0, "user", FALSE)>>,
      <<Tok(0, 0, 0, "system", FALSE), Tok(1, 1, 0, "user", FALSE),
        Tok(2, 1, 1, "user", FALSE)>>,
      <<Tok(0, 0, 0, "system", FALSE), Tok(1, 1, 0, "user", TRUE),
        Tok(2, 1, 0, "user", FALSE), Tok(3, 2, 0, "assistant", FALSE)>> }

\* BrightnessStrategy._load_tokens_from_export: deleted tokens are dropped
LoadTokensFromExport(tokens) ==
    SelectSeq(tokens, LAMBDA t : ~t.deleted)

\* BrightnessStrategy.__init__: the export file when given, else the
\* prompt_tokens of metadata.json as they are
LoadAllTokens(export, tokens) ==
    IF export THEN LoadTokensFromExport(tokens) ELSE tokens

(***************************************************************************)
(* Step records                                                            *)
(***************************************************************************)
Payload(shape, data) == [shape |-> shape, data |-> data]

\* What the client posts for one generation step: the shape triple
\* <<layers, heads, context_length>> and the flat tensor, values in 1/One.
AttnPayloads ==
    { Payload(<<1, 1, 3>>, <<12, 5, 3>>),
      Payload(<<1, 1, 3>>, <<10, 2, 8>>),
      Payload(<<2, 1, 2>>, <<12, 8, 8, 12>>),
      Payload(<<1, 1, 1>>, <<20>>),
      Payload(<<1, 2, 4>>, <<10, 4, 2, 4, 10, 2, 4, 4>>),
      Payload(<<1, 1, 2>>, <<20, 0>>),
      Payload(<<1, 1, 3>>, <<10, 10>>) }

\* A step without attention (a health check or a non-generation event)
NoAttention == Payload(<<>>, <<>>)

Payloads == AttnPayloads \cup {NoAttention}

\* A file of the capture directory.  ok: the JSON parses.  bin: the sibling
\* _attn.bin exists (split format); data is then the content of the .bin,
\* in legacy format it is attention.data of the JSON.
StepFile(ok, shape, data, bin) ==
    [ok |-> ok, shape |-> shape, data |-> data, bin |-> bin]

\* float32 view of the captured values: the client captures float32 values
\* and the payload values are multiples of the unit, which the cast keeps.
Float32(data) == data

\* BrightnessStrategy._load_token_data.  raised: json.JSONDecodeError.
LoadTokenData(fmt, file) ==
    IF ~file.ok
    THEN [raised |-> TRUE, has_data |-> FALSE, has_shape |-> FALSE,
          attention_data |-> <<>>, attention_shape |-> <<>>]
    ELSE IF fmt = "split"
    THEN IF file.bin /\ file.shape # <<>>
         THEN [raised |-> FALSE, has_data |-> TRUE, has_shape |-> TRUE,
               attention_data |-> file.data, attention_shape |-> file.shape]
         ELSE [raised |-> FALSE, has_data |-> FALSE,
               has_shape |-> file.shape # <<>>,
               attention_data |-> <<>>, attention_shape |-> file.shape]
    ELSE IF file.data # <<>>
         THEN [raised |-> FALSE, has_data |-> TRUE, has_shape |-> TRUE,
               attention_data |-> Float32(file.data),
               attention_shape |-> file.shape]
         ELSE [raised |-> FALSE, has_data |-> FALSE, has_shape |-> FALSE,
               attention_data |-> <<>>, attention_shape |-> <<>>]

\* json.load of the step file itself, as MagnitudeVotingStrategy and
\* MagnitudeVotingStrategyV2 read it: only an embedded `attention` counts.
LoadJsonDirect(fmt, file) ==
    IF ~file.ok
    THEN [raised |-> TRUE, has_data |-> FALSE, has_shape |-> FALSE,
          attention_data |-> <<>>, attention_shape |-> <<>>]
    ELSE IF fmt = "legacy" /\ file.data # <<>>
    THEN [raised |-> FALSE, has_data |-> TRUE, has_shape |-> TRUE,
          attention_data |-> file.data, attention_shape |-> file.shape]
    ELSE [raised |-> FALSE, has_data |-> FALSE, has_shape |-> FALSE,
          attention_data |-> <<>>, attention_shape |-> <<>>]

\* "Skip if no attention": the record is passed over without being counted
NoAttentionData(data) == ~data.has_data \/ ~data.has_shape

\* np.array(attention_data).reshape(shape) raises ValueError unless the
\* length is layers * heads * context_length
ReshapeFails(attention_data, shape) ==
    Len(attention_data) # shape[1] * shape[2] * shape[3]

\* BrightnessStrategy._aggregate_attention: mean over layers and heads,
\* kept as column sums v over rows = layers * heads
Aggregate(attention_data, shape) ==
    LET rows == shape[1] * shape[2]
        context_len == shape[3]
    IN [rows |-> rows,
        v |-> [j \in 1..context_len |->
                 SumSeq([r \in 1..rows |->
                           attention_data[(r - 1) * context_len + j]])]]

\* variant: the mean taken over the positions after BOS only
AboveMeanWithoutBos(aggregated, pos_idx) ==
    aggregated.v[pos_idx + 1] * (Len(aggregated.v) - 1)
        > SumSeq(aggregated.v) - aggregated.v[1]

\* attn_value > np.mean(aggregated), for context index pos_idx (from 0)
AboveLocalMean(aggregated, pos_idx) ==
    aggregated.v[pos_idx + 1] * Len(aggregated.v) > SumSeq(aggregated.v)

(***************************************************************************)
(* Rolling Mean Voting (voting_strategy.py)                                *)
(***************************************************************************)
\* variant: a position at or below the mean loses the votes it had
RECURSIVE VotingLoopStreak(_, _, _, _, _)
VotingLoopStreak(v, tokens, aggregated, min_distance, pos_idx) ==
    IF pos_idx >= Len(aggregated.v) THEN v
    ELSE IF pos_idx >= Len(tokens)
    THEN VotingLoopStreak(v, tokens, aggregated, min_distance, pos_idx + 1)
    ELSE IF (Len(aggregated.v) - pos_idx) < min_distance
    THEN VotingLoopStreak(v, tokens, aggregated, min_distance, pos_idx + 1)
    ELSE IF AboveLocalMean(aggregated, pos_idx)
    THEN VotingLoopStreak(Bump(v, tokens[pos_idx + 1].position, 1), tokens,
                          aggregated, min_distance, pos_idx + 1)
    ELSE VotingLoopStreak(
             [p \in DOMAIN v |->
                IF p = tokens[pos_idx + 1].position THEN 0 ELSE v[p]],
             tokens, aggregated, min_distance, pos_idx + 1)

\* the loop over enumerate(aggregated) of VotingStrategy.compute_scores
RECURSIVE VotingLoop(_, _, _, _, _)
VotingLoop(v, tokens, aggregated, min_distance, pos_idx) ==
    IF pos_idx >= Len(aggregated.v) THEN v
    ELSE IF pos_idx >= Len(tokens)
    THEN VotingLoop(v, tokens, aggregated, min_distance, pos_idx + 1)
    ELSE IF (Len(aggregated.v) - pos_idx) < min_distance
    THEN VotingLoop(v, tokens, aggregated, min_distance, pos_idx + 1)
    ELSE IF AboveLocalMean(aggregated, pos_idx)
    THEN VotingLoop(Bump(v, tokens[pos_idx + 1].position, 1), tokens,
                    aggregated, min_distance, pos_idx + 1)
    ELSE VotingLoop(v, tokens, aggregated, min_distance, pos_idx + 1)

\* variant: the votes of a step are counted twice
VotingUpdateTwice(v, tokens, aggregated, params) ==
    VotingLoop(VotingLoop(v, tokens, aggregated, params.min_distance, 0),
               tokens, aggregated, params.min_distance, 0)

VotingUpdate(v, tokens, aggregated, params) ==
    VotingLoop(v, tokens, aggregated, params.min_distance, 0)

(***************************************************************************)
(* Symmetric Voting (symmetric_voting_strategy.py)                         *)
(***************************************************************************)
\* "Initialize all tokens to 255"
InitScores(tokens) ==
    [p \in {tokens[i].position : i \in DOMAIN tokens} |-> InitialScore]

\* variant: no penalty at or below the mean
SymmetricVoteNoPenalty(aggregated, pos_idx) ==
    IF AboveLocalMean(aggregated, pos_idx) THEN 1 ELSE 0

\* variant: a value equal to the local mean earns +1
SymmetricVoteAtMean(aggregated, pos_idx) ==
    IF aggregated.v[pos_idx + 1] * Len(aggregated.v) >= SumSeq(aggregated.v)
    THEN 1 ELSE -1

\* +1 above the local mean, -1 otherwise
SymmetricVote(aggregated, pos_idx) ==
    IF AboveLocalMean(aggregated, pos_idx) THEN 1 ELSE -1

RECURSIVE SymmetricLoop(_, _, _, _)
SymmetricLoop(sc, tokens, aggregated, pos_idx) ==
    IF pos_idx >= Len(aggregated.v) THEN sc
    ELSE IF pos_idx >= Len(tokens)
    THEN SymmetricLoop(sc, tokens, aggregated, pos_idx + 1)
    ELSE SymmetricLoop(
             [sc EXCEPT ![tokens[pos_idx + 1].position] =
                            @ + SymmetricVote(aggregated, pos_idx)],
             tokens, aggregated, pos_idx + 1)

\* variant: the score is clamped to [0, 255] after every step
SymmetricUpdateClamped(sc, tokens, aggregated, params) ==
    LET next == SymmetricLoop(sc, tokens, aggregated, 0)
    IN [p \in DOMAIN next |->
          IF next[p] > InitialScore THEN InitialScore
          ELSE IF next[p] < 0 THEN 0 ELSE next[p]]

\* variant: a score never falls below zero
SymmetricUpdateFloored(sc, tokens, aggregated, params) ==
    LET next == SymmetricLoop(sc, tokens, aggregated, 0)
    IN [p \in DOMAIN next |-> IF next[p] < 0 THEN 0 ELSE next[p]]

SymmetricUpdate(sc, tokens, aggregated, params) ==
    SymmetricLoop(sc, tokens, aggregated, 0)

(***************************************************************************)
(* Magnitude-Weighted Voting, baseline (magnitude_voting_strategy.py)      *)
(***************************************************************************)
\* int(x / y) of Python: the quotient truncated toward zero (y # 0)
TruncDiv(x, y) ==
    IF y > 0
    THEN IF x >= 0 THEN x \div y ELSE -((-x) \div y)
    ELSE IF x >= 0 THEN -(x \div (-y)) ELSE (-x) \div (-y)

\* variant: the reward is the excess over the mean, int(ratio) - 1
MagnitudeVoteExcess(aggregated, pos_idx) ==
    IF AboveLocalMean(aggregated, pos_idx)
    THEN TruncDiv(aggregated.v[pos_idx + 1] * Len(aggregated.v),
                  SumSeq(aggregated.v)) - 1
    ELSE -1

\* ratio = int(attn_value / local_mean) above the mean, else -1
MagnitudeVote(aggregated, pos_idx) ==
    IF AboveLocalMean(aggregated, pos_idx)
    THEN TruncDiv(aggregated.v[pos_idx + 1] * Len(aggregated.v),
                  SumSeq(aggregated.v))
    ELSE -1

RECURSIVE MagnitudeLoop(_, _, _, _)
MagnitudeLoop(sc, tokens, aggregated, pos_idx) ==
    IF pos_idx >= Len(aggregated.v) THEN sc
    ELSE IF pos_idx >= Len(tokens)
    THEN MagnitudeLoop(sc, tokens, aggregated, pos_idx + 1)
    ELSE MagnitudeLoop(
             [sc EXCEPT ![tokens[pos_idx + 1].position] =
                            @ + MagnitudeVote(aggregated, pos_idx)],
             tokens, aggregated, pos_idx + 1)

MagnitudeUpdate(sc, tokens, aggregated, params) ==
    MagnitudeLoop(sc, tokens, aggregated, 0)

(***************************************************************************)
(* Magnitude-Weighted Voting, optimized (magnitude_voting_strategy_v2.py,  *)
(* magnitude_voting_strategy_v3.py)                                        *)
(***************************************************************************)
Min(a, b) == IF a < b THEN a ELSE b

Max(a, b) == IF a > b THEN a ELSE b

\* What a cast of inf or nan to an integer type can leave behind
UndefinedCast == {Int32Min, 0, Int32Max}

\* scores_array += updates on np.int32 wraps around; so does scores[pos] +=
\* increment of v2 where the `int` of astype(int) is 32 bits wide
Add32(a, b) ==
    IF a > 0 /\ b > 0 /\ a > Int32Max - b
    THEN (a + Int32Min) + (b + Int32Min)
    ELSE IF a < 0 /\ b < 0 /\ a < Int32Min - b
    THEN (a - Int32Min) + (b - Int32Min)
    ELSE a + b

\* variant: the mean 1/n over all positions, BOS included
ThresholdNumWithBos(aggregated) == aggregated.rows * One

\* numerator of threshold = (1.0 - bos_attention) / len(non_bos_attention),
\* over the denominator rows * One * len(non_bos_attention)
ThresholdNum(aggregated) == aggregated.rows * One - aggregated.v[1]

\* variant: only a value above twice the threshold counts as above it
AboveThresholdTwice(aggregated, n_non_bos, pos_idx) ==
    aggregated.v[pos_idx + 1] * n_non_bos > 2 * ThresholdNum(aggregated)

\* non_bos_attention > threshold at context index pos_idx >= 1, where
\* n_non_bos = len(non_bos_attention) >= 1
AboveThreshold(aggregated, n_non_bos, pos_idx) ==
    aggregated.v[pos_idx + 1] * n_non_bos > ThresholdNum(aggregated)

\* (non_bos_attention / threshold).astype(int) at pos_idx; dividing by a
\* zero threshold gives inf or nan, whose cast is left to the platform: ub
Ratio(aggregated, n_non_bos, pos_idx, ub) ==
    IF ThresholdNum(aggregated) = 0 THEN ub
    ELSE TruncDiv(aggregated.v[pos_idx + 1] * n_non_bos,
                  ThresholdNum(aggregated))

OptimizedVote(aggregated, n_non_bos, pos_idx, ub) ==
    IF AboveThreshold(aggregated, n_non_bos, pos_idx)
    THEN Ratio(aggregated, n_non_bos, pos_idx, ub)
    ELSE -1

\* v2: "Initialize all tokens to 255, EXCEPT position 0 (BOS)"
InitScoresV2(tokens) ==
    [p \in {q \in {tokens[i].position : i \in DOMAIN tokens} : q > 0}
       |-> InitialScore]

\* v2: non_bos_tokens / positions_array
NonBosPositions(tokens) ==
    LET kept == SelectSeq(tokens, LAMBDA t : t.position > 0)
    IN [i \in DOMAIN kept |-> kept[i].position]

\* v2: len(aggregated[1:len(self.all_tokens)])
NonBosLenV2(tokens, aggregated) ==
    Max(0, Min(Len(aggregated.v), Len(tokens)) - 1)

\* v2: the loop over enumerate(positions_array)
RECURSIVE MagnitudeV2Loop(_, _, _, _, _, _)
MagnitudeV2Loop(sc, positions_array, aggregated, n_non_bos, ub, i) ==
    IF i >= Len(positions_array) \/ i >= n_non_bos THEN sc
    ELSE MagnitudeV2Loop(
             [sc EXCEPT ![positions_array[i + 1]] =
                            Add32(@, OptimizedVote(aggregated, n_non_bos,
                                                   i + 1, ub))],
             positions_array, aggregated, n_non_bos, ub, i + 1)

MagnitudeV2Update(sc, tokens, aggregated, ub) ==
    MagnitudeV2Loop(sc, NonBosPositions(tokens), aggregated,
                    NonBosLenV2(tokens, aggregated), ub, 0)

\* v3: max(t['position'] for t in self.all_tokens)
RECURSIVE MaxPosition(_)
MaxPosition(tokens) ==
    IF Len(tokens) = 1 THEN tokens[1].position
    ELSE Max(tokens[1].position, MaxPosition(Tail(tokens)))

\* v3: np.full(max_position + 1, 255), scores_array[0] = 0
InitScoresArray(tokens) ==
    [p \in 0..MaxPosition(tokens) |-> IF p = 0 THEN 0 ELSE InitialScore]

\* v3: len(aggregated[1:context_len]) with
\* context_len = min(len(aggregated), len(scores_array))
NonBosLenV3(arr, aggregated) ==
    Max(0, Min(Len(aggregated.v), Cardinality(DOMAIN arr)) - 1)

\* v3: scores_array[1:context_len] += np.where(above_threshold, ratios, -1)
MagnitudeV3Update(arr, tokens, aggregated, ub) ==
    LET context_len == Min(Len(aggregated.v), Cardinality(DOMAIN arr))
        n_non_bos == NonBosLenV3(arr, aggregated)
    IN [p \in DOMAIN arr |->
          IF p >= 1 /\ p < context_len
          THEN Add32(arr[p], OptimizedVote(aggregated, n_non_bos, p, ub))
          ELSE arr[p]]

\* v3: "Convert array back to dict", position 0 left out
ArrayToScores(arr, tokens) ==
    [p \in {q \in {tokens[i].position : i \in DOMAIN tokens} : q > 0}
       |-> arr[p]]

(***************************************************************************)
(* Cumulative Strategy (cumulative_strategy.py)                            *)
(***************************************************************************)
RECURSIVE GCD(_, _)
GCD(a, b) == IF b = 0 THEN a ELSE GCD(b, a % b)

Abs(x) == IF x < 0 THEN -x ELSE x

\* the fraction n/d (d # 0) in lowest terms with a positive denominator
Frac(n, d) ==
    LET g == GCD(Abs(n), Abs(d))
        sgn == IF d < 0 THEN -1 ELSE 1
    IN <<sgn * (n \div g), sgn * (d \div g)>>

FAdd(x, y) == Frac(x[1] * y[2] + y[1] * x[2], x[2] * y[2])

FSub(x, y) == Frac(x[1] * y[2] - y[1] * x[2], x[2] * y[2])

FMul(x, y) == Frac(x[1] * y[1], x[2] * y[2])

FZero == <<0, 1>>

\* 1000 * ln(k) and 1000 * sqrt(k), rounded, for the arguments in reach
Ln1000(k) ==
    <<0, 693, 1099, 1386, 1609, 1792, 1946, 2079>>[k]

Sqrt1000(k) ==
    <<1000, 1414, 1732, 2000, 2236, 2449, 2646, 2828>>[k]

\* CumulativeStrategy._apply_distance_weight
ApplyDistanceWeight(params, raw_attention, distance) ==
    IF params.distance_mode = "none" THEN raw_attention
    ELSE IF distance < params.min_distance THEN FZero
    ELSE IF params.distance_mode = "threshold"
    THEN FMul(raw_attention, <<1, 1>>)
    ELSE IF params.distance_mode = "linear"
    THEN FMul(raw_attention, Frac(distance, params.distance_scale))
    ELSE IF params.distance_mode = "logarithmic"
    THEN FMul(raw_attention,
              Frac(Ln1000(distance + 1), Ln1000(params.distance_scale + 1)))
    ELSE IF params.distance_mode = "square_root"
    THEN FMul(raw_attention,
              Frac(Sqrt1000(distance), Sqrt1000(params.distance_scale)))
    ELSE FMul(raw_attention, <<1, 1>>)

\* variant: exponential decay subtracts the fixed rate
CalculateDecayFixed(params, current_score) ==
    IF params.decay_mode = "none" THEN FZero ELSE params.decay_rate

\* variant: every decay is proportional to the score
CalculateDecayProportional(params, current_score) ==
    IF params.decay_mode = "none" THEN FZero
    ELSE FMul(current_score, params.decay_rate)

\* CumulativeStrategy._calculate_decay
CalculateDecay(params, current_score) ==
    IF params.decay_mode = "none" THEN FZero
    ELSE IF params.decay_mode = "additive" THEN params.decay_rate
    ELSE IF params.decay_mode = "exponential"
    THEN FMul(current_score, params.decay_rate)
    ELSE FZero

\* scores[actual_position] of a defaultdict(float)
ScoreOf(sc, p) == IF p \in DOMAIN sc THEN sc[p] ELSE FZero

\* new_score = old_score + weighted_attention - decay
CumulativeScore(params, old_score, raw_attention, distance) ==
    FSub(FAdd(old_score, ApplyDistanceWeight(params, raw_attention, distance)),
         CalculateDecay(params, old_score))

\* variant: an attention index beyond the token set is scored under the
\* index itself
RECURSIVE CumulativeLoopUnguarded(_, _, _, _, _)
CumulativeLoopUnguarded(sc, tokens, aggregated, params, pos_idx) ==
    IF pos_idx >= Len(aggregated.v) THEN sc
    ELSE LET actual_position ==
                 IF pos_idx >= Len(tokens) THEN pos_idx
                 ELSE tokens[pos_idx + 1].position
             new_score ==
                 CumulativeScore(params, ScoreOf(sc, actual_position),
                     Frac(aggregated.v[pos_idx + 1], aggregated.rows * One),
                     Len(aggregated.v) - pos_idx)
         IN CumulativeLoopUnguarded(
                [p \in DOMAIN sc \cup {actual_position} |->
                   IF p = actual_position THEN new_score ELSE sc[p]],
                tokens, aggregated, params, pos_idx + 1)

RECURSIVE CumulativeLoop(_, _, _, _, _)
CumulativeLoop(sc, tokens, aggregated, params, pos_idx) ==
    IF pos_idx >= Len(aggregated.v) THEN sc
    ELSE IF pos_idx >= Len(tokens)
    THEN CumulativeLoop(sc, tokens, aggregated, params, pos_idx + 1)
    ELSE LET actual_position == tokens[pos_idx + 1].position
             new_score ==
                 CumulativeScore(params, ScoreOf(sc, actual_position),
                     Frac(aggregated.v[pos_idx + 1], aggregated.rows * One),
                     Len(aggregated.v) - pos_idx)
         IN CumulativeLoop(
                [p \in DOMAIN sc \cup {actual_position} |->
                   IF p = actual_position THEN new_score ELSE sc[p]],
                tokens, aggregated, params, pos_idx + 1)

CumulativeUpdate(sc, tokens, aggregated, params) ==
    CumulativeLoop(sc, tokens, aggregated, params, 0)

\* The configurations the cumulative strategy is run with
Params(min_distance, decay_rate, decay_mode, distance_mode, distance_scale) ==
    [min_distance |-> min_distance, decay_rate |-> decay_rate,
     decay_mode |-> decay_mode, distance_mode |-> distance_mode,
     distance_scale |-> distance_scale]

CumulativeConfigs ==
    { Params(2, <<1, 2>>, "exponential", "none", 2),
      Params(2, <<1, 20>>, "additive", "threshold", 2),
      Params(0, <<1, 20>>, "none", "linear", 2),
      Params(2, <<1, 20>>, "additive", "logarithmic", 2),
      Params(1, <<1, 2>>, "exponential", "square_root", 2) }

\* min_distance of the Rolling Mean Voting runs
VotingConfigs ==
    { Params(0, FZero, "none", "none", 1),
      Params(2, FZero, "none", "none", 1) }

\* a strategy constructed without parameters of its own
NoParameters == Params(0, FZero, "none", "none", 1)

(***************************************************************************)
(* Sentence Aggregator (BrightnessStrategy._group_tokens_by_sentence)      *)
(***************************************************************************)
\* x < y on fractions
FracLess(x, y) == x[1] * y[2] < y[1] * x[2]

\* a < b on scores: fractions for the cumulative strategy, else integers
Less(frac, a, b) ==
    IF frac THEN FracLess(a, b) ELSE a < b

\* variant: the turn is left out of the grouping key
SentenceKeyWithoutTurn(token) ==
    <<0, token.sentence_id, token.message_role>>

SentenceKey(token) ==
    <<token.turn_id, token.sentence_id, token.message_role>>

\* the keys of the defaultdict `sentences`, in order of first insertion
RECURSIVE KeysInOrder(_, _)
KeysInOrder(tokens, seen) ==
    IF tokens = <<>> THEN seen
    ELSE IF \E i \in DOMAIN seen : seen[i] = SentenceKey(Head(tokens))
    THEN KeysInOrder(Tail(tokens), seen)
    ELSE KeysInOrder(Tail(tokens), Append(seen, SentenceKey(Head(tokens))))

\* variant: the score of the first token of the sentence
PeakScoreOfFirst(token_scores, frac) == token_scores[1]

\* max(t['score'] for t in tokens): the first maximal element is kept
RECURSIVE PeakScore(_, _)
PeakScore(token_scores, frac) ==
    IF Len(token_scores) = 1 THEN token_scores[1]
    ELSE LET rest == PeakScore(Tail(token_scores), frac)
         IN IF Less(frac, token_scores[1], rest) THEN rest ELSE token_scores[1]

\* ScoredSentence(turn_id, sentence_id, role, tokens, score)
ScoredSentence(key, tokens, scored_tokens, frac) ==
    LET members == SelectSeq(tokens, LAMBDA t : SentenceKey(t) = key)
    IN [turn_id |-> key[1], sentence_id |-> key[2], role |-> key[3],
        tokens |-> [i \in DOMAIN members |->
                      [position |-> members[i].position,
                       score |-> scored_tokens[members[i].position]]],
        score |-> PeakScore([i \in DOMAIN members |->
                               scored_tokens[members[i].position]], frac),
        token_count |-> Len(members)]

\* result.sort(key=lambda s: s.score, reverse=True): stable, descending
RECURSIVE SortDescending(_, _)
SortDescending(list, frac) ==
    IF list = <<>> THEN <<>>
    ELSE LET sorted == SortDescending(SubSeq(list, 1, Len(list) - 1), frac)
             last == list[Len(list)]
             k == Cardinality({i \in DOMAIN sorted :
                                 ~Less(frac, sorted[i].score, last.score)})
         IN SubSeq(sorted, 1, k) \o <<last>> \o SubSeq(sorted, k + 1, Len(sorted))

GroupTokensBySentence(tokens, scored_tokens, frac) ==
    LET scored == SelectSeq(tokens, LAMBDA t : t.position \in DOMAIN scored_tokens)
        keys == KeysInOrder(scored, <<>>)
    IN SortDescending(
           [i \in DOMAIN keys |->
              ScoredSentence(keys[i], scored, scored_tokens, frac)], frac)

(***************************************************************************)
(* The capture server (save_server.py)                                     *)
(***************************************************************************)
Init ==
    /\ format \in {"legacy", "split"}
    /\ all_tokens = <<>>
    /\ files = <<>>
    /\ pc = "capture"
    /\ strategy = "none"
    /\ parameters = NoParameters
    /\ idx = 0
    /\ skipped = 0
    /\ votes = EmptyMap
    /\ scores = EmptyMap
    /\ scores_array = <<>>
    /\ result = EmptyMap
    /\ sentences = <<>>
    /\ capture_dir = {}
    /\ loaded_files = <<>>

\* CaptureHandler._handle_write_token: token_<index>.json with the attention
\* embedded; a write cut short leaves a file that does not parse
WriteToken(payload, truncated) ==
    /\ pc = "capture"
    /\ format = "legacy"
    /\ Len(files) < MaxSteps
    /\ files' = Append(files,
                       IF truncated THEN StepFile(FALSE, <<>>, <<>>, FALSE)
                       ELSE StepFile(TRUE, payload.shape, payload.data, FALSE))
    /\ UNCHANGED <<format, all_tokens, pc, strategy, parameters, idx, skipped,
                   votes, scores, scores_array, result, sentences,
                   capture_dir, loaded_files>>

\* CaptureHandler._handle_write_token_meta: token_<index>_meta.json carries
\* attention_shape and no attention
WriteTokenMeta(payload, truncated) ==
    /\ pc = "capture"
    /\ format = "split"
    /\ Len(files) < MaxSteps
    /\ files' = Append(files,
                       IF truncated THEN StepFile(FALSE, <<>>, <<>>, FALSE)
                       ELSE StepFile(TRUE, payload.shape, <<>>, FALSE))
    /\ UNCHANGED <<format, all_tokens, pc, strategy, parameters, idx, skipped,
                   votes, scores, scores_array, result, sentences,
                   capture_dir, loaded_files>>

\* CaptureHandler._handle_write_token_attn: the raw tensor of the step whose
\* metadata was written last goes to token_<index>_attn.bin
WriteTokenAttn(payload) ==
    /\ pc = "capture"
    /\ format = "split"
    /\ files # <<>>
    /\ files[Len(files)].ok
    /\ ~files[Len(files)].bin
    /\ files[Len(files)].shape = payload.shape
    /\ files' = [files EXCEPT ![Len(files)] =
                    StepFile(TRUE, payload.shape, payload.data, TRUE)]
    /\ UNCHANGED <<format, all_tokens, pc, strategy, parameters, idx, skipped,
                   votes, scores, scores_array, result, sentences,
                   capture_dir, loaded_files>>

(***************************************************************************)
(* One run of a strategy over the finished capture                         *)
(***************************************************************************)
Strategies ==
    {"voting", "symmetric", "magnitude", "magnitude_v2", "magnitude_v3",
     "cumulative"}

ConfigsOf(strat) ==
    IF strat = "voting" THEN VotingConfigs
    ELSE IF strat = "cumulative" THEN CumulativeConfigs
    ELSE {NoParameters}

\* the locals of compute_scores: the scoreboards, `skipped`, the number of
\* files consumed, and whether an uncaught exception ended the run
Locals(v, sc, arr, skip, i, crashed) ==
    [votes |-> v, scores |-> sc, scores_array |-> arr, skipped |-> skip,
     idx |-> i, crashed |-> crashed]

\* the head of compute_scores: the scoreboard of the strategy is set up
InitLocals(strat, tokens) ==
    Locals(EmptyMap,
           IF strat \in {"symmetric", "magnitude"} THEN InitScores(tokens)
           ELSE IF strat = "magnitude_v2" THEN InitScoresV2(tokens)
           ELSE EmptyMap,
           IF strat = "magnitude_v3" THEN InitScoresArray(tokens) ELSE <<>>,
           0, 0, FALSE)

\* variant: a file that does not parse is passed over without being counted
LoopBodyUncounted(data, st, next_votes, next_scores, next_array) ==
    IF data.raised \/ NoAttentionData(data)
    THEN [st EXCEPT !.idx = @ + 1]
    ELSE IF ReshapeFails(data.attention_data, data.attention_shape)
    THEN [st EXCEPT !.crashed = TRUE]
    ELSE [st EXCEPT !.idx = @ + 1, !.votes = next_votes,
                    !.scores = next_scores, !.scores_array = next_array]

\* variant: a file without attention is counted as skipped
LoopBodyCounting(data, st, next_votes, next_scores, next_array) ==
    IF data.raised \/ NoAttentionData(data)
    THEN [st EXCEPT !.skipped = @ + 1, !.idx = @ + 1]
    ELSE IF ReshapeFails(data.attention_data, data.attention_shape)
    THEN [st EXCEPT !.crashed = TRUE]
    ELSE [st EXCEPT !.idx = @ + 1, !.votes = next_votes,
                    !.scores = next_scores, !.scores_array = next_array]

\* One pass of `for idx, filepath in enumerate(token_files)`: a file that
\* does not parse is counted and skipped, one without attention is passed
\* over, a tensor that does not fit its shape ends the run with ValueError
LoopBody(data, st, next_votes, next_scores, next_array) ==
    IF data.raised
    THEN [st EXCEPT !.skipped = @ + 1, !.idx = @ + 1]
    ELSE IF NoAttentionData(data)
    THEN [st EXCEPT !.idx = @ + 1]
    ELSE IF ReshapeFails(data.attention_data, data.attention_shape)
    THEN [st EXCEPT !.crashed = TRUE]
    ELSE [st EXCEPT !.idx = @ + 1, !.votes = next_votes,
                    !.scores = next_scores, !.scores_array = next_array]

\* the aggregated attention of the file the loop is at
Aggregated(data) == Aggregate(data.attention_data, data.attention_shape)

VotingBody(fmt, tokens, params, file, st) ==
    LET data == LoadTokenData(fmt, file)
    IN LoopBody(data, st,
                VotingUpdate(st.votes, tokens, Aggregated(data), params),
                st.scores, st.scores_array)

SymmetricBody(fmt, tokens, params, file, st) ==
    LET data == LoadTokenData(fmt, file)
    IN LoopBody(data, st, st.votes,
                SymmetricUpdate(st.scores, tokens, Aggregated(data), params),
                st.scores_array)

MagnitudeBody(fmt, tokens, params, file, st) ==
    LET data == LoadJsonDirect(fmt, file)
    IN LoopBody(data, st, st.votes,
                MagnitudeUpdate(st.scores, tokens, Aggregated(data), params),
                st.scores_array)

MagnitudeV2Body(fmt, tokens, ub, file, st) ==
    LET data == LoadJsonDirect(fmt, file)
    IN LoopBody(data, st, st.votes,
                MagnitudeV2Update(st.scores, tokens, Aggregated(data), ub),
                st.scores_array)

MagnitudeV3Body(fmt, tokens, ub, file, st) ==
    LET data == LoadTokenData(fmt, file)
    IN LoopBody(data, st, st.votes, st.scores,
                MagnitudeV3Update(st.scores_array, tokens, Aggregated(data), ub))

CumulativeBody(fmt, tokens, params, file, st) ==
    LET data == LoadTokenData(fmt, file)
    IN LoopBody(data, st, st.votes,
                CumulativeUpdate(st.scores, tokens, Aggregated(data), params),
                st.scores_array)

\* the loop body of the compute_scores of strategy strat
StrategyBody(strat, fmt, tokens, params, ub, file, st) ==
    IF strat = "voting" THEN VotingBody(fmt, tokens, params, file, st)
    ELSE IF strat = "symmetric" THEN SymmetricBody(fmt, tokens, params, file, st)
    ELSE IF strat = "magnitude" THEN MagnitudeBody(fmt, tokens, params, file, st)
    ELSE IF strat = "magnitude_v2" THEN MagnitudeV2Body(fmt, tokens, ub, file, st)
    ELSE IF strat = "magnitude_v3" THEN MagnitudeV3Body(fmt, tokens, ub, file, st)
    ELSE CumulativeBody(fmt, tokens, params, file, st)

\* the whole loop over token_files, from the locals st on
RECURSIVE RunLoop(_, _, _, _, _, _, _)
RunLoop(strat, fmt, tokens, params, ub, token_files, st) ==
    IF st.crashed \/ st.idx >= Len(token_files) THEN st
    ELSE RunLoop(strat, fmt, tokens, params, ub, token_files,
                 StrategyBody(strat, fmt, tokens, params, ub,
                              token_files[st.idx + 1], st))

\* BrightnessStrategy.__init__ and the head of compute_scores: the token
\* set is loaded and the scoreboard of the strategy is set up
Start(strat, params, export, tokens) ==
    /\ pc = "capture"
    /\ pc' = "running"
    /\ strategy' = strat
    /\ parameters' = params
    /\ all_tokens' = LoadAllTokens(export, tokens)
    /\ idx' = 0
    /\ skipped' = 0
    /\ votes' = InitLocals(strat, LoadAllTokens(export, tokens)).votes
    /\ scores' = InitLocals(strat, LoadAllTokens(export, tokens)).scores
    /\ scores_array' =
           InitLocals(strat, LoadAllTokens(export, tokens)).scores_array
    /\ UNCHANGED <<format, files, result, sentences,
                   capture_dir, loaded_files>>

\* the locals of the run in progress
Current == Locals(votes, scores, scores_array, skipped, idx, FALSE)

\* the run goes on with the locals st, or has ended with an exception
Continue(st) ==
    /\ votes' = st.votes
    /\ scores' = st.scores
    /\ scores_array' = st.scores_array
    /\ skipped' = st.skipped
    /\ idx' = st.idx
    /\ pc' = IF st.crashed THEN "crashed" ELSE pc
    /\ UNCHANGED <<format, all_tokens, files, strategy, parameters, result,
                   sentences,
                   capture_dir, loaded_files>>

VotingStep ==
    /\ pc = "running" /\ strategy = "voting" /\ idx < Len(files)
    /\ Continue(VotingBody(format, all_tokens, parameters, files[idx + 1],
                           Current))

SymmetricStep ==
    /\ pc = "running" /\ strategy = "symmetric" /\ idx < Len(files)
    /\ Continue(SymmetricBody(format, all_tokens, parameters, files[idx + 1],
                              Current))

MagnitudeStep ==
    /\ pc = "running" /\ strategy = "magnitude" /\ idx < Len(files)
    /\ Continue(MagnitudeBody(format, all_tokens, parameters, files[idx + 1],
                              Current))

MagnitudeV2Step(ub) ==
    /\ pc = "running" /\ strategy = "magnitude_v2" /\ idx < Len(files)
    /\ Continue(MagnitudeV2Body(format, all_tokens, ub, files[idx + 1],
                                Current))

MagnitudeV3Step(ub) ==
    /\ pc = "running" /\ strategy = "magnitude_v3" /\ idx < Len(files)
    /\ Continue(MagnitudeV3Body(format, all_tokens, ub, files[idx + 1],
                                Current))

CumulativeStep ==
    /\ pc = "running" /\ strategy = "cumulative" /\ idx < Len(files)
    /\ Continue(CumulativeBody(format, all_tokens, parameters, files[idx + 1],
                               Current))

\* what compute_scores hands back once the loop is through
ScoreMapOf(strat, v, sc, arr, tokens) ==
    IF strat = "voting" THEN v
    ELSE IF strat = "magnitude_v3" THEN ArrayToScores(arr, tokens)
    ELSE sc

\* The report compute_scores prints before it returns: the Magnitude
\* variants divide the elapsed time by len(token_files) (ZeroDivisionError
\* on a capture without step files), and every strategy but Rolling Mean
\* Voting and Cumulative prints min(score_values) (ValueError on an empty
\* scoreboard)
ReportRaises(strat, token_files, score_map) ==
    \/ /\ strat \in {"magnitude", "magnitude_v2", "magnitude_v3"}
       /\ token_files = <<>>
    \/ /\ strat \in {"symmetric", "magnitude", "magnitude_v2", "magnitude_v3"}
       /\ DOMAIN score_map = {}

\* compute_scores as a function of the capture: the locals at the end of
\* the loop and the ScoreMap returned (none when the run crashed)
ComputeScores(strat, fmt, tokens, params, ub, token_files) ==
    LET st == RunLoop(strat, fmt, tokens, params, ub, token_files,
                      InitLocals(strat, tokens))
        score_map == ScoreMapOf(strat, st.votes, st.scores, st.scores_array,
                                tokens)
        crashed == st.crashed \/ ReportRaises(strat, token_files, score_map)
    IN [crashed |-> crashed,
        skipped |-> st.skipped,
        scores |-> IF crashed THEN EmptyMap ELSE score_map]

ReturnScores ==
    /\ pc = "running" /\ idx = Len(files)
    /\ LET score_map == ScoreMapOf(strategy, votes, scores, scores_array,
                                   all_tokens)
       IN IF ReportRaises(strategy, files, score_map)
          THEN pc' = "crashed" /\ result' = result
          ELSE pc' = "returned" /\ result' = score_map
    /\ UNCHANGED <<format, all_tokens, files, strategy, parameters, idx,
                   skipped, votes, scores, scores_array, sentences,
                   capture_dir, loaded_files>>

\* BrightnessStrategy.run after compute_scores: the sentences are grouped,
\* then min() of the score statistics raises ValueError on an empty map
GroupSentences ==
    /\ pc = "returned"
    /\ sentences' = GroupTokensBySentence(all_tokens, result,
                                          strategy = "cumulative")
    /\ pc' = IF DOMAIN result = {} THEN "crashed" ELSE "done"
    /\ UNCHANGED <<format, all_tokens, files, strategy, parameters, idx,
                   skipped, votes, scores, scores_array, result,
                   capture_dir, loaded_files>>

Next ==
    \/ \E payload \in Payloads, truncated \in BOOLEAN :
           WriteToken(payload, truncated)
    \/ \E payload \in Payloads, truncated \in BOOLEAN :
           WriteTokenMeta(payload, truncated)
    \/ \E payload \in AttnPayloads : WriteTokenAttn(payload)
    \/ \E strat \in Strategies, export \in BOOLEAN, tokens \in TokenFiles :
           \E params \in ConfigsOf(strat) : Start(strat, params, export, tokens)
    \/ VotingStep
    \/ SymmetricStep
    \/ MagnitudeStep
    \/ \E ub \in UndefinedCast : MagnitudeV2Step(ub)
    \/ \E ub \in UndefinedCast : MagnitudeV3Step(ub)
    \/ CumulativeStep
    \/ ReturnScores
    \/ GroupSentences

Spec == Init /\ [][Next]_vars

(***************************************************************************)
(* Properties                                                              *)
(***************************************************************************)
\* the step file holds an attention payload (a shape and a tensor)
AttentionBearing(file) ==
    file.ok /\ file.shape # <<>> /\ file.data # <<>>

\* the attention-bearing step files of the capture, as a set of indices
AttentionSteps == {k \in DOMAIN files : AttentionBearing(files[k])}

\* the aggregated attention of step file k
AggregatedOf(k) == Aggregate(files[k].data, files[k].shape)

\* context index i - 1 of token i lies inside the context of step file k
Covered(k, i) == i <= files[k].shape[3]

\* the documented initial value of a strategy
Baseline(strat) ==
    IF strat = "voting" THEN 0
    ELSE IF strat = "cumulative" THEN FZero
    ELSE InitialScore

\* C1: after a run over a capture in which no step file carries an attention
\* payload, the returned ScoreMap has an entry for every token of the token
\* set and the entry is the initial value of the strategy (0 for Rolling
\* Mean Voting and Cumulative, 255 for the others).
C1_ZeroStepsBaseline ==
    (pc = "returned" /\ AttentionSteps = {}) =>
        \A i \in DOMAIN all_tokens :
            /\ all_tokens[i].position \in DOMAIN result
            /\ result[all_tokens[i].position] = Baseline(strategy)

Scenario ==
    /\ [i \in DOMAIN all_tokens |-> all_tokens[i].position] = <<0, 1, 2>>
    /\ Len(files) = 2
    /\ AttentionSteps = {1, 2}
    /\ AggregatedOf(1) = [rows |-> 1, v |-> <<12, 5, 3>>]
    /\ AggregatedOf(2) = [rows |-> 1, v |-> <<10, 2, 8>>]

Perms(n) ==
    {f \in [1..n -> 1..n] : \A i, j \in 1..n : i # j => f[i] # f[j]}

Permuted(token_files, f) ==
    [i \in DOMAIN token_files |-> token_files[f[i]]]

\* step files k and k + 1 exchanged
Swapped(token_files, k) ==
    [i \in DOMAIN token_files |->
       IF i = k THEN token_files[k + 1]
       ELSE IF i = k + 1 THEN token_files[k]
       ELSE token_files[i]]

\* the ScoreMap of the running strategy had the step files been processed
\* in the order token_files
Reordered(token_files) ==
    ComputeScores(strategy, format, all_tokens, parameters, 0, token_files).scores

\* C4: Rolling Mean Voting returns the same vote total for every position
\* whatever the order in which the step files are processed.
C4_VotingOrderInsensitive ==
    (pc = "returned" /\ strategy = "voting") =>
        \A f \in Perms(Len(files)) : Reordered(Permuted(files, f)) = result

\* a Rolling Mean Voting run returned votes over two different steps
C4_Witness ==
    /\ pc = "returned" /\ strategy = "voting"
    /\ AttentionSteps = {1, 2}
    /\ files[1] # files[2]
    /\ \E p \in DOMAIN result : result[p] = 2
    /\ \E p \in DOMAIN result : result[p] = 1

\* every legacy capture of at most MaxSteps step files
LegacyCaptures ==
    LET step_files == {StepFile(TRUE, p.shape, p.data, FALSE) : p \in Payloads}
                          \cup {StepFile(FALSE, <<>>, <<>>, FALSE)}
    IN UNION {[1..n -> step_files] : n \in 0..MaxSteps}

\* some capture and some reordering of it give strategy strat two ScoreMaps
OrderSensitive(strat) ==
    \E tokens \in TokenFiles, token_files \in LegacyCaptures :
        \E f \in Perms(Len(token_files)) :
            ComputeScores(strat, "legacy", tokens, NoParameters, 0,
                          Permuted(token_files, f)).scores
                # ComputeScores(strat, "legacy", tokens, NoParameters, 0,
                                token_files).scores

WeightedAttention(k, i) ==
    ApplyDistanceWeight(parameters,
        Frac(AggregatedOf(k).v[i], AggregatedOf(k).rows * One),
        files[k].shape[3] - (i - 1))

\* C6: Cumulative results change under a permutation of the steps: with
\* exponential decay at a rate strictly between 0 and 1, exchanging two
\* adjacent attention-bearing steps that add different weighted attention
\* to a token they both cover changes the final score of that token.
C6_CumulativeOrderSensitive ==
    (/\ pc = "returned" /\ strategy = "cumulative"
     /\ parameters.decay_mode = "exponential"
     /\ FracLess(FZero, parameters.decay_rate)
     /\ FracLess(parameters.decay_rate, <<1, 1>>)) =>
        \A k \in AttentionSteps, i \in DOMAIN all_tokens :
            (/\ k + 1 \in AttentionSteps
             /\ Covered(k, i) /\ Covered(k + 1, i)
             /\ WeightedAttention(k, i) # WeightedAttention(k + 1, i))
            => Reordered(Swapped(files, k))[all_tokens[i].position]
                   # result[all_tokens[i].position]

\* a Cumulative run returned and a reordering of its steps gives another
\* ScoreMap
C6_Witness ==
    /\ pc = "returned" /\ strategy = "cumulative"
    /\ \E f \in Perms(Len(files)) : Reordered(Permuted(files, f)) # result

\* the same steps with the same attention values in the other format
OtherFormat(fmt) == IF fmt = "legacy" THEN "split" ELSE "legacy"

InFormat(fmt, token_files) ==
    [k \in DOMAIN token_files |->
       IF ~token_files[k].ok THEN token_files[k]
       ELSE IF ~AttentionBearing(token_files[k])
       THEN StepFile(TRUE, <<>>, <<>>, FALSE)
       ELSE StepFile(TRUE, token_files[k].shape, token_files[k].data,
                     fmt = "split")]

\* every step of the capture is whole: no metadata file waits for its .bin
WholeCapture ==
    \A k \in DOMAIN files :
        files[k].ok => (files[k].shape = <<>> \/ files[k].data # <<>>)

\* C7: for every strategy, the capture holding the same steps with the same
\* attention values in the other on-disk format gives an equal ScoreMap.
C7_FormatsAgree ==
    (pc = "returned" /\ WholeCapture) =>
        LET other == ComputeScores(strategy, OtherFormat(format), all_tokens,
                                   parameters, 0,
                                   InFormat(OtherFormat(format), files))
        IN ~other.crashed /\ other.scores = result

\* the step files the run has consumed whose tensor fits its shape
FittingSteps ==
    {k \in AttentionSteps :
        k <= idx /\ ~ReshapeFails(files[k].data, files[k].shape)}

\* the aggregated attention of step file k sums to 1
Normalised(k) ==
    SumSeq(AggregatedOf(k).v) = AggregatedOf(k).rows * One

\* C8: in the optimized Magnitude Voting variants position 0 is never a key
\* of the scoreboard or of the returned ScoreMap (in v3 its array cell stays
\* 0), and the threshold of a step is formed from the positions after BOS
\* only: its numerator is the sum of the aggregated attention of positions
\* 1 .. n-1 and its divisor counts no more than those n-1 positions.
C8_BosExcluded ==
    /\ strategy = "magnitude_v2" => 0 \notin DOMAIN scores
    /\ strategy = "magnitude_v3" => scores_array[0] = 0
    /\ (strategy \in {"magnitude_v2", "magnitude_v3"} /\ pc = "returned")
           => 0 \notin DOMAIN result
    /\ strategy \in {"magnitude_v2", "magnitude_v3"} =>
           \A k \in FittingSteps :
               /\ Normalised(k) =>
                      ThresholdNum(AggregatedOf(k))
                          = SumSeq(Tail(AggregatedOf(k).v))
               /\ NonBosLenV2(all_tokens, AggregatedOf(k))
                      <= Len(AggregatedOf(k).v) - 1

\* an optimized run over a token set that holds position 0 returned after
\* a step moved the scores
C8_Witness ==
    /\ pc = "returned" /\ strategy \in {"magnitude_v2", "magnitude_v3"}
    /\ all_tokens[1].position = 0
    /\ FittingSteps # {}
    /\ result # InitScoresV2(all_tokens)

\* a step file that parses and holds no attention payload
NoPayload(file) == file.ok /\ (file.shape = <<>> \/ file.data = <<>>)

\* C10: a step record without attention payload is inert in every strategy:
\* the loop passes over it, every score stays as it was, and the skipped
\* count does not grow.
C10_NoAttentionInert ==
    [][(pc = "running" /\ idx < Len(files) /\ NoPayload(files[idx + 1])) =>
           /\ votes' = votes
           /\ scores' = scores
           /\ scores_array' = scores_array
           /\ skipped' = skipped
           /\ idx' = idx + 1
           /\ pc' = pc]_vars

\* a run has passed over a step without payload after a step that moved
\* the scores
C10_Witness ==
    /\ pc = "running" /\ strategy = "symmetric" /\ idx = 2
    /\ AttentionBearing(files[1])
    /\ NoPayload(files[2])
    /\ scores # InitScores(all_tokens)
    /\ skipped = 0

(***************************************************************************)
(* Failure semantics and the edges of the token set                        *)
(***************************************************************************)
\* token i lies outside the context of every attention-bearing step
NeverCovered(i) == \A k \in AttentionSteps : ~Covered(k, i)

\* C11: after a run over a capture with attention-bearing steps, a token of
\* the token set that no step's context covers is a key of the returned
\* ScoreMap, with the initial value of the strategy (0 for Rolling Mean
\* Voting and Cumulative, 255 for the others).
C11_UncoveredKeepsInitial ==
    (pc = "returned" /\ AttentionSteps # {}) =>
        \A i \in DOMAIN all_tokens :
            NeverCovered(i) =>
                /\ all_tokens[i].position \in DOMAIN result
                /\ result[all_tokens[i].position] = Baseline(strategy)

\* the tensor of the step file does not have layers * heads * context_length
\* values
Mismatch(file) ==
    AttentionBearing(file) /\ ReshapeFails(file.data, file.shape)

\* C12: in split format a step whose .bin does not have the length its
\* metadata announces is passed over: the run goes on with the next step
\* file and no score changes.
C12_MismatchSkipped ==
    [][(/\ pc = "running" /\ format = "split" /\ idx < Len(files)
        /\ files[idx + 1].bin /\ Mismatch(files[idx + 1])) =>
           /\ pc' = "running"
           /\ idx' = idx + 1
           /\ votes' = votes
           /\ scores' = scores
           /\ scores_array' = scores_array]_vars

\* the step files that do not parse, as a set of indices
Malformed == {k \in DOMAIN files : ~files[k].ok}

\* the capture with the malformed records removed
WellFormed(token_files) == SelectSeq(token_files, LAMBDA file : file.ok)

SentencePositions(list) ==
    UNION {{list[i].tokens[j].position : j \in DOMAIN list[i].tokens} :
              i \in DOMAIN list}

\* C14: whichever source the token set comes from, no token flagged deleted
\* has a score in the returned ScoreMap and none is part of a ScoredSentence.
C14_DeletedExcluded ==
    \A i \in DOMAIN all_tokens :
        all_tokens[i].deleted =>
            /\ pc \in {"returned", "done"} =>
                   all_tokens[i].position \notin DOMAIN result
            /\ pc = "done" =>
                   all_tokens[i].position \notin SentencePositions(sentences)

\* the positions of a token set
Positions(tokens) == {tokens[i].position : i \in DOMAIN tokens}

\* C15: attention indices beyond the token set are ignored: at every point
\* of every run the keys of the scoreboard, and of the returned ScoreMap,
\* are positions of the token set.
C15_KeysWithinTokenSet ==
    /\ DOMAIN votes \subseteq Positions(all_tokens)
    /\ DOMAIN scores \subseteq Positions(all_tokens)
    /\ DOMAIN result \subseteq Positions(all_tokens)

\* a run returned scores after a step whose context is longer than the
\* token set
C15_Witness ==
    /\ pc = "returned"
    /\ DOMAIN result # {}
    /\ \E k \in FittingSteps :
           /\ files[k].shape[3] > Len(all_tokens)
           /\ strategy \in {"magnitude", "magnitude_v2"} => format = "legacy"

(***************************************************************************)
(* Scoring runs over finished capture directories whose step records reach *)
(* the edges of the step rules                                             *)
(***************************************************************************)
\* Step records: the two steps of the concrete scenario; a position at twice
\* the optimized threshold; all attention on BOS; BOS attention rounded to
\* 1.0 with a residue left on position 1; a context of BOS alone; two heads
\* over a context of four.
RunPayloads ==
    { Payload(<<1, 1, 3>>, <<12, 5, 3>>),
      Payload(<<1, 1, 3>>, <<10, 2, 8>>),
      Payload(<<1, 1, 3>>, <<10, 10, 0>>),
      Payload(<<1, 1, 2>>, <<20, 0>>),
      Payload(<<1, 1, 2>>, <<20, 1>>),
      Payload(<<1, 1, 1>>, <<20>>),
      Payload(<<1, 2, 4>>, <<10, 4, 2, 4, 10, 2, 4, 4>>) }

\* the capture directories of at most MaxSteps whole step records
RunCaptures(fmt) ==
    UNION {[1..n -> {StepFile(TRUE, p.shape, p.data, fmt = "split") :
                        p \in RunPayloads}] : n \in 0..MaxSteps}

\* the configurations of the runs: Rolling Mean Voting also with
\* min_distance = 1
RunConfigsOf(strat) ==
    IF strat = "voting"
    THEN VotingConfigs \cup {Params(1, FZero, "none", "none", 1)}
    ELSE ConfigsOf(strat)

InitRun ==
    /\ format \in {"legacy", "split"}
    /\ files \in RunCaptures(format)
    /\ all_tokens = <<>>
    /\ pc = "capture"
    /\ strategy = "none"
    /\ parameters = NoParameters
    /\ idx = 0
    /\ skipped = 0
    /\ votes = EmptyMap
    /\ scores = EmptyMap
    /\ scores_array = <<>>
    /\ result = EmptyMap
    /\ sentences = <<>>
    /\ capture_dir = {}
    /\ loaded_files = <<>>

NextRun ==
    \/ \E strat \in Strategies, export \in BOOLEAN, tokens \in TokenFiles :
           \E params \in RunConfigsOf(strat) :
               Start(strat, params, export, tokens)
    \/ VotingStep
    \/ SymmetricStep
    \/ MagnitudeStep
    \/ \E ub \in UndefinedCast : MagnitudeV2Step(ub)
    \/ \E ub \in UndefinedCast : MagnitudeV3Step(ub)
    \/ CumulativeStep
    \/ ReturnScores
    \/ GroupSentences

SpecRun == InitRun /\ [][NextRun]_vars

\* the loop is at a step file that holds an attention tensor fitting its
\* shape
AtAttentionStep ==
    /\ pc = "running" /\ idx < Len(files)
    /\ AttentionBearing(files[idx + 1])
    /\ ~ReshapeFails(files[idx + 1].data, files[idx + 1].shape)
    /\ format = "split" => files[idx + 1].bin

\* the entry of position p in a scoreboard of integers, 0 when absent
VotesOf(v, p) == IF p \in DOMAIN v THEN v[p] ELSE 0

\* C16: at an attention-bearing step Rolling Mean Voting gives a token +1
\* exactly when its aggregated value is strictly above the local mean and
\* the context length minus the position of the token is at least
\* min_distance; otherwise the votes of the token stay as they are.
C16_VotingStepRule ==
    [][(AtAttentionStep /\ strategy = "voting") =>
           \A i \in DOMAIN all_tokens :
               VotesOf(votes', all_tokens[i].position)
                   = VotesOf(votes, all_tokens[i].position)
                     + (IF /\ Covered(idx + 1, i)
                           /\ AboveLocalMean(AggregatedOf(idx + 1), i - 1)
                           /\ files[idx + 1].shape[3] - all_tokens[i].position
                                  >= parameters.min_distance
                        THEN 1 ELSE 0)]_vars

\* the Magnitude-Weighted Voting variants
MagnitudeVariants == {"magnitude", "magnitude_v2", "magnitude_v3"}

\* the score the variant strat keeps for position p
MagnitudeScore(strat, sc, arr, p) ==
    IF strat = "magnitude_v3" THEN arr[p] ELSE sc[p]

\* The attention index under which the variant strat scores token i at a
\* step, -1 when the step does not reach the token: the baseline reads the
\* index of the token in the token set, v2 the rank of the token among the
\* tokens after BOS, v3 the position of the token.
AttentionIndex(strat, tokens, aggregated, arr, i) ==
    IF strat = "magnitude"
    THEN IF i <= Len(aggregated.v) THEN i - 1 ELSE -1
    ELSE IF tokens[i].position <= 0 THEN -1
    ELSE IF strat = "magnitude_v2"
    THEN LET rank == Cardinality({m \in 1..i : tokens[m].position > 0})
         IN IF rank <= NonBosLenV2(tokens, aggregated) THEN rank ELSE -1
    ELSE IF tokens[i].position <= NonBosLenV3(arr, aggregated)
         THEN tokens[i].position ELSE -1

\* The comparison threshold of the variant strat at a step, as the fraction
\* <<numerator, denominator>> in the unit of the column sums: the local mean
\* for the baseline, (1 - attention[BOS]) over the divisor of the variant
\* for the optimized ones.
MagnitudeThreshold(strat, tokens, aggregated, arr) ==
    IF strat = "magnitude"
    THEN <<SumSeq(aggregated.v), Len(aggregated.v)>>
    ELSE IF strat = "magnitude_v2"
    THEN <<ThresholdNum(aggregated), NonBosLenV2(tokens, aggregated)>>
    ELSE <<ThresholdNum(aggregated), NonBosLenV3(arr, aggregated)>>

\* C17: at a step with a positive threshold every Magnitude-Weighted Voting
\* variant raises the score of a covered position strictly above the
\* threshold by floor(attention / threshold) and lowers the score of every
\* other covered position by exactly 1, whatever the score was (no clamp).
C17_MagnitudeStepRule ==
    [][(AtAttentionStep /\ strategy \in MagnitudeVariants) =>
           \A i \in DOMAIN all_tokens :
               LET aggregated == AggregatedOf(idx + 1)
                   j == AttentionIndex(strategy, all_tokens, aggregated,
                                       scores_array, i)
                   threshold == MagnitudeThreshold(strategy, all_tokens,
                                                   aggregated, scores_array)
                   attention == aggregated.v[j + 1] * threshold[2]
                   increment ==
                       MagnitudeScore(strategy, scores', scores_array',
                                      all_tokens[i].position)
                       - MagnitudeScore(strategy, scores, scores_array,
                                        all_tokens[i].position)
               IN (j >= 0 /\ threshold[1] > 0 /\ threshold[2] > 0) =>
                      IF attention > threshold[1]
                      THEN /\ increment * threshold[1] <= attention
                           /\ attention < (increment + 1) * threshold[1]
                      ELSE increment = -1]_vars

\* the optimized variant of the run has read step file k
ReadByOptimized(k) ==
    /\ k \in FittingSteps
    /\ strategy = "magnitude_v2" => format = "legacy"

\* C18: in the optimized variants the threshold of a step whose aggregated
\* vector has n >= 2 positions and sums to 1 is (1 - attention[BOS]) / (n - 1),
\* the mean of the aggregated attention over the n - 1 positions after BOS,
\* also when n exceeds the number of known tokens.
C18_ThresholdIsNonBosMean ==
    strategy \in {"magnitude_v2", "magnitude_v3"} =>
        \A k \in DOMAIN files :
            (/\ ReadByOptimized(k)
             /\ Normalised(k)
             /\ Len(AggregatedOf(k).v) >= 2) =>
                LET threshold ==
                        MagnitudeThreshold(strategy, all_tokens,
                                           AggregatedOf(k), scores_array)
                IN /\ threshold[2] > 0
                   /\ threshold[1] * (Len(AggregatedOf(k).v) - 1)
                          = SumSeq(Tail(AggregatedOf(k).v)) * threshold[2]

\* C19: in the optimized variants a step whose threshold is zero or undefined
\* (BOS attention equal to 1, or no position after BOS) completes without an
\* error and counts no position as above the threshold: no score rises, and
\* none moves by anything but the -1 of a position at or below the threshold.
C19_ZeroThresholdGuarded ==
    [][(/\ AtAttentionStep
        /\ strategy \in {"magnitude_v2", "magnitude_v3"}
        /\ strategy = "magnitude_v2" => format = "legacy"
        /\ LET threshold ==
                   MagnitudeThreshold(strategy, all_tokens,
                                      AggregatedOf(idx + 1), scores_array)
           IN threshold[1] = 0 \/ threshold[2] = 0) =>
           /\ pc' = "running"
           /\ \A i \in DOMAIN all_tokens :
                  all_tokens[i].position > 0 =>
                      LET old == MagnitudeScore(strategy, scores, scores_array,
                                                all_tokens[i].position)
                          new == MagnitudeScore(strategy, scores',
                                                scores_array',
                                                all_tokens[i].position)
                      IN new = old \/ new = old - 1]_vars

\* C20: in the Cumulative Strategy, in every distance mode, a covered
\* position whose distance from the generation head (context length minus
\* position index) is below min_distance contributes a weighted attention of
\* zero at the step: its score moves by the decay alone.
C20_MinDistanceContributesZero ==
    [][(AtAttentionStep /\ strategy = "cumulative") =>
           \A i \in DOMAIN all_tokens :
               (/\ Covered(idx + 1, i)
                /\ files[idx + 1].shape[3] - (i - 1) < parameters.min_distance)
               => ScoreOf(scores', all_tokens[i].position)
                      = FSub(ScoreOf(scores, all_tokens[i].position),
                             CalculateDecay(parameters,
                                 ScoreOf(scores, all_tokens[i].position)))]_vars

(***************************************************************************)
(* Step rules, relations between the strategies, and the step order        *)
(***************************************************************************)
\* C21: at a step of the Cumulative Strategy the weighted contribution of a
\* covered position is added first and the decay is subtracted afterwards:
\* the fixed decay_rate under additive decay, and under exponential decay
\* decay_rate times the score that already holds the contribution of this
\* step; nothing is clamped.
C21_CumulativeStepRule ==
    [][(AtAttentionStep /\ strategy = "cumulative") =>
           \A i \in DOMAIN all_tokens :
               Covered(idx + 1, i) =>
                   LET raised ==
                           FAdd(ScoreOf(scores, all_tokens[i].position),
                                WeightedAttention(idx + 1, i))
                   IN ScoreOf(scores', all_tokens[i].position)
                          = FSub(raised, CalculateDecay(parameters, raised))]_vars

\* The step records of the long captures
LongPayloads ==
    { Payload(<<1, 1, 3>>, <<12, 5, 3>>),
      Payload(<<1, 1, 3>>, <<10, 2, 8>>),
      Payload(<<1, 1, 2>>, <<20, 0>>) }

\* Long captures: LongRun whole legacy step records, p at the odd and q at
\* the even step indices
LongCaptures ==
    {[k \in 1..LongRun |->
        IF k % 2 = 1 THEN StepFile(TRUE, p.shape, p.data, FALSE)
        ELSE StepFile(TRUE, q.shape, q.data, FALSE)] :
        p \in LongPayloads, q \in LongPayloads}

InitLong ==
    /\ format = "legacy"
    /\ files \in LongCaptures
    /\ all_tokens = <<>>
    /\ pc = "capture"
    /\ strategy = "none"
    /\ parameters = NoParameters
    /\ idx = 0
    /\ skipped = 0
    /\ votes = EmptyMap
    /\ scores = EmptyMap
    /\ scores_array = <<>>
    /\ result = EmptyMap
    /\ sentences = <<>>
    /\ capture_dir = {}
    /\ loaded_files = <<>>

NextLong ==
    \/ \E export \in BOOLEAN, tokens \in TokenFiles :
           Start("symmetric", NoParameters, export, tokens)
    \/ SymmetricStep
    \/ ReturnScores
    \/ GroupSentences

SpecLong == InitLong /\ [][NextLong]_vars

\* token i was covered by, and at or below the local mean of, every one of
\* the first n step files
IgnoredThrough(n, i) ==
    \A k \in 1..n :
        /\ k \in AttentionSteps
        /\ Covered(k, i)
        /\ ~AboveLocalMean(AggregatedOf(k), i - 1)

TokenPrefix == <<116, 111, 107, 101, 110, 95>>

JsonSuffix == <<46, 106, 115, 111, 110>>

MetaSuffix == <<95, 109, 101, 116, 97>> \o JsonSuffix

AttnSuffix == <<95, 97, 116, 116, 110, 46, 98, 105, 110>>

\* the decimal digits of index >= 0 ('0' has code 48)
RECURSIVE Decimal(_)
Decimal(index) ==
    IF index < 10 THEN <<48 + index>>
    ELSE Append(Decimal(index \div 10), 48 + (index % 10))

\* the format specification 05d: zeros in front up to a width of five, and
\* every digit of a longer number
RECURSIVE ZeroPadded(_)
ZeroPadded(digits) ==
    IF Len(digits) >= 5 THEN digits ELSE ZeroPadded(<<48>> \o digits)

\* f'token_{int(index):05d}<suffix>'
TokenFileName(index, suffix) ==
    TokenPrefix \o ZeroPadded(Decimal(index)) \o suffix

\* a < b on strings, as sorted() compares the paths of one directory
RECURSIVE StrLess(_, _)
StrLess(a, b) ==
    IF b = <<>> THEN FALSE
    ELSE IF a = <<>> THEN TRUE
    ELSE IF Head(a) # Head(b) THEN Head(a) < Head(b)
    ELSE StrLess(Tail(a), Tail(b))

\* sorted(names)
RECURSIVE Sorted(_)
Sorted(names) ==
    IF names = {} THEN <<>>
    ELSE LET first == CHOOSE a \in names :
                          \A b \in names \ {a} : StrLess(a, b)
         IN <<first>> \o Sorted(names \ {first})

\* glob('token_*<suffix>') over the names of the directory
Glob(names, suffix) ==
    {name \in names :
        /\ Len(name) >= Len(TokenPrefix) + Len(suffix)
        /\ SubSeq(name, 1, Len(TokenPrefix)) = TokenPrefix
        /\ SubSeq(name, Len(name) - Len(suffix) + 1, Len(name)) = suffix}

\* BrightnessStrategy._load_token_files
LoadTokenFiles(names) ==
    LET meta_files == Sorted(Glob(names, MetaSuffix))
    IN IF meta_files # <<>> THEN meta_files
       ELSE Sorted(Glob(names, JsonSuffix))

\* the step indices the client posts
LoaderIndices == {0, 1, 9, 10, 99999, 100000}

\* CaptureHandler._handle_write_token, by the name of the file it writes
HandleWriteToken(index) ==
    /\ pc = "capture"
    /\ format = "legacy"
    /\ capture_dir' = capture_dir \cup {TokenFileName(index, JsonSuffix)}
    /\ UNCHANGED <<format, all_tokens, files, pc, strategy, parameters, idx,
                   skipped, votes, scores, scores_array, result, sentences,
                   loaded_files>>

\* CaptureHandler._handle_write_token_meta
HandleWriteTokenMeta(index) ==
    /\ pc = "capture"
    /\ format = "split"
    /\ capture_dir' = capture_dir \cup {TokenFileName(index, MetaSuffix)}
    /\ UNCHANGED <<format, all_tokens, files, pc, strategy, parameters, idx,
                   skipped, votes, scores, scores_array, result, sentences,
                   loaded_files>>

\* CaptureHandler._handle_write_token_attn
HandleWriteTokenAttn(index) ==
    /\ pc = "capture"
    /\ format = "split"
    /\ capture_dir' = capture_dir \cup {TokenFileName(index, AttnSuffix)}
    /\ UNCHANGED <<format, all_tokens, files, pc, strategy, parameters, idx,
                   skipped, votes, scores, scores_array, result, sentences,
                   loaded_files>>

\* token_files = self._load_token_files(): the directory is scanned anew on
\* every call
LoadStepFiles ==
    /\ pc = "capture"
    /\ loaded_files' = LoadTokenFiles(capture_dir)
    /\ UNCHANGED <<format, all_tokens, files, pc, strategy, parameters, idx,
                   skipped, votes, scores, scores_array, result, sentences,
                   capture_dir>>

NextLoader ==
    \/ \E index \in LoaderIndices : HandleWriteToken(index)
    \/ \E index \in LoaderIndices : HandleWriteTokenMeta(index)
    \/ \E index \in LoaderIndices : HandleWriteTokenAttn(index)
    \/ LoadStepFiles

SpecLoader == Init /\ [][NextLoader]_vars

\* the number a run of digit characters stands for
RECURSIVE DigitsValue(_, _)
DigitsValue(chars, value) ==
    IF chars = <<>> \/ Head(chars) < 48 \/ Head(chars) > 57 THEN value
    ELSE DigitsValue(Tail(chars), 10 * value + (Head(chars) - 48))

\* the numeric index embedded in a file name
StepIndex(name) ==
    DigitsValue(SubSeq(name, Len(TokenPrefix) + 1, Len(name)), 0)

\* C23: the list the Step Loader returns is in strictly ascending order of
\* the numeric index embedded in the file names, for every set of indices
\* the capture server writes, indices of more than five digits included.
C23_AscendingStepOrder ==
    \A i, j \in DOMAIN loaded_files :
        i < j => StepIndex(loaded_files[i]) < StepIndex(loaded_files[j])

\* token i lies inside the context of every attention-bearing step
AlwaysCovered(i) == \A k \in AttentionSteps : Covered(k, i)

\* the run of Rolling Mean Voting over the capture of the current run
VotingRun(min_distance) ==
    ComputeScores("voting", format, all_tokens,
                  Params(min_distance, FZero, "none", "none", 1), 0, files)

PositiveMean(k) ==
    /\ \A j \in DOMAIN files[k].data : files[k].data[j] >= 0
    /\ SumSeq(AggregatedOf(k).v) > 0

\* the scoreboard of Symmetric Voting after the step files the current run
\* has consumed
SymmetricPrefix ==
    RunLoop("symmetric", format, all_tokens, NoParameters, 0,
            SubSeq(files, 1, idx), InitLocals("symmetric", all_tokens))

\* C26: on a legacy capture with non-negative attention and a positive local
\* mean at every step, after every prefix of the step sequence the score of
\* baseline Magnitude Voting is at least the score of Symmetric Voting, for
\* every token.
C26_MagnitudeAtLeastSymmetric ==
    (/\ strategy = "magnitude" /\ format = "legacy"
     /\ pc \in {"running", "returned"}
     /\ \A k \in FittingSteps : PositiveMean(k)) =>
        /\ ~SymmetricPrefix.crashed
        /\ DOMAIN scores = DOMAIN SymmetricPrefix.scores
        /\ \A p \in DOMAIN scores : scores[p] >= SymmetricPrefix.scores[p]

\* after two steps of a baseline Magnitude Voting run one token is ahead of
\* its Symmetric score and another, below the mean, is level with it
C26_Witness ==
    /\ strategy = "magnitude" /\ format = "legacy" /\ pc = "running"
    /\ idx = 2 /\ Cardinality(AttentionSteps) = 2
    /\ \E p \in DOMAIN scores : scores[p] > SymmetricPrefix.scores[p]
    /\ \E p \in DOMAIN scores :
           scores[p] = SymmetricPrefix.scores[p] /\ scores[p] < InitialScore

\* The step the optimized run is at sums to 1 over n >= 2 positions that
\* are all positions of the token set, and its BOS attention is at least the
\* mean 1/n over all positions.
DominantBosStep ==
    /\ AtAttentionStep
    /\ strategy \in {"magnitude_v2", "magnitude_v3"}
    /\ strategy = "magnitude_v2" => format = "legacy"
    /\ Normalised(idx + 1)
    /\ Len(AggregatedOf(idx + 1).v) >= 2
    /\ \A j \in 0..(Len(AggregatedOf(idx + 1).v) - 1) :
           j \in Positions(all_tokens)
    /\ AggregatedOf(idx + 1).v[1] * Len(AggregatedOf(idx + 1).v)
           >= SumSeq(AggregatedOf(idx + 1).v)

\* C27: at a step that sums to 1 over n >= 2 positions within the token
\* set and whose BOS attention is at least 1/n, the optimized threshold is
\* (1 - attention[0]) / (n - 1) and no greater than the local mean of the
\* baseline, and every position after BOS to which baseline Magnitude Voting
\* gives a positive increment gets an increment at least as large from the
\* optimized variant.
C27_OptimizedAtLeastBaseline ==
    [][DominantBosStep =>
           LET aggregated == AggregatedOf(idx + 1)
               threshold == MagnitudeThreshold(strategy, all_tokens,
                                               aggregated, scores_array)
               local_mean == MagnitudeThreshold("magnitude", all_tokens,
                                                aggregated, scores_array)
           IN /\ threshold[2] = Len(aggregated.v) - 1
              /\ threshold[1] * local_mean[2] <= local_mean[1] * threshold[2]
              /\ \A i \in DOMAIN all_tokens :
                     (/\ all_tokens[i].position > 0
                      /\ Covered(idx + 1, i)
                      /\ MagnitudeVote(aggregated, i - 1) > 0) =>
                         MagnitudeScore(strategy, scores', scores_array',
                                        all_tokens[i].position)
                         - MagnitudeScore(strategy, scores, scores_array,
                                          all_tokens[i].position)
                             >= MagnitudeVote(aggregated, i - 1)]_vars

\* an optimized run has given position 1 the increment 2 at a step where
\* the baseline gives it 1
C27_Witness ==
    /\ pc = "running" /\ idx = 1
    /\ strategy \in {"magnitude_v2", "magnitude_v3"}
    /\ strategy = "magnitude_v2" => format = "legacy"
    /\ AggregatedOf(1) = [rows |-> 1, v |-> <<10, 10, 0>>]
    /\ {0, 1, 2} \subseteq Positions(all_tokens)
    /\ MagnitudeVote(AggregatedOf(1), 1) = 1
    /\ MagnitudeScore(strategy, scores, scores_array, 1) = InitialScore + 2

\* C28: for a token set whose first token is at position 0 and a legacy
\* capture whose steps have a context length of at least 2, the array based
\* variant v3 returns the ScoreMap the dict based variant v2 returns, also
\* when the positions of the token set are not contiguous.
C28_OptimizedVariantsAgree ==
    (/\ pc = "returned" /\ strategy = "magnitude_v2" /\ format = "legacy"
     /\ all_tokens # <<>> /\ all_tokens[1].position = 0
     /\ \A k \in AttentionSteps : files[k].shape[3] >= 2) =>
        LET v3 == ComputeScores("magnitude_v3", format, all_tokens,
                                NoParameters, 0, files)
        IN ~v3.crashed /\ v3.scores = result

\* the attention-bearing step files the run has consumed
ProcessedAttentionSteps == {k \in AttentionSteps : k <= idx}

\* C29: in a Rolling Mean Voting run every entry of the vote map is at least
\* 1 and at most the number of attention-bearing steps processed so far, and
\* from one step to the next no entry disappears and no vote total
\* decreases.
C29_VotesMonotoneBounded ==
    /\ [](strategy = "voting" =>
             \A p \in DOMAIN votes :
                 /\ votes[p] >= 1
                 /\ votes[p] <= Cardinality(ProcessedAttentionSteps))
    /\ [][strategy = "voting" =>
             \A p \in DOMAIN votes :
                 p \in DOMAIN votes' /\ votes'[p] >= votes[p]]_vars

\* a Rolling Mean Voting run holds, after two attention-bearing steps, a
\* position voted for twice and a position voted for once
C29_Witness ==
    /\ strategy = "voting" /\ pc = "running" /\ idx = 2
    /\ Cardinality(ProcessedAttentionSteps) = 2
    /\ \E p \in DOMAIN votes : votes[p] = 2
    /\ \E p \in DOMAIN votes : votes[p] = 1

\* C30: with decay_mode 'additive' or 'none' the ScoreMap the Cumulative
\* Strategy returns is the same for every order in which the step files are
\* processed (each step changes a score by its weighted contribution minus
\* a constant).
C30_AdditiveOrderInvariant ==
    (/\ pc = "returned" /\ strategy = "cumulative"
     /\ parameters.decay_mode \in {"additive", "none"}) =>
        \A f \in Perms(Len(files)) : Reordered(Permuted(files, f)) = result

\* a Cumulative run with additive decay returned after two steps that gave
\* different weighted attention to a token both cover
C30_Witness ==
    /\ pc = "returned" /\ strategy = "cumulative"
    /\ parameters.decay_mode = "additive"
    /\ AttentionSteps = {1, 2}
    /\ \E i \in DOMAIN all_tokens :
           /\ Covered(1, i) /\ Covered(2, i)
           /\ WeightedAttention(1, i) # WeightedAttention(2, i)
           /\ WeightedAttention(1, i) # FZero
           /\ all_tokens[i].position \in DOMAIN result

(***************************************************************************)
(* The Sentence Aggregator on its own: _group_tokens_by_sentence applied   *)
(* to a token list and a ScoreMap drawn from small sets                    *)
(***************************************************************************)
\* three tokens in one sentence; in two sentences with the same sentence id
\* in different turns; in three sentences that differ in role or sentence id
SentenceLayouts ==
    { <<Tok(0, 1, 0, "user", FALSE), Tok(1, 1, 0, "user", FALSE),
        Tok(2, 1, 0, "user", FALSE)>>,
      <<Tok(0, 1, 0, "user", FALSE), Tok(1, 1, 0, "user", FALSE),
        Tok(2, 2, 0, "user", FALSE)>>,
      <<Tok(0, 1, 0, "user", FALSE), Tok(1, 1, 0, "assistant", FALSE),
        Tok(2, 1, 1, "user", FALSE)>> }

\* the token lists of the layouts, in every order
AggregatorTokenLists ==
    {Permuted(layout, f) : layout \in SentenceLayouts, f \in Perms(3)}

AggregatorScores == {5, 10, 50}

\* the ScoreMaps over the positions 0..2, partial ones included
AggregatorScoreMaps ==
    UNION {[D -> AggregatorScores] : D \in (SUBSET {0, 1, 2}) \ {{}}}

InitAggregator ==
    /\ format = "legacy"
    /\ all_tokens \in AggregatorTokenLists
    /\ files = <<>>
    /\ pc = "returned"
    /\ strategy = "none"
    /\ parameters = NoParameters
    /\ idx = 0
    /\ skipped = 0
    /\ votes = EmptyMap
    /\ scores = EmptyMap
    /\ scores_array = <<>>
    /\ result \in AggregatorScoreMaps
    /\ sentences = <<>>
    /\ capture_dir = {}
    /\ loaded_files = <<>>

SpecAggregator == InitAggregator /\ [][GroupSentences]_vars

\* the largest element of a set of integers
SetMax(S) == CHOOSE x \in S : \A y \in S : y <= x

\* the scores of the scored tokens of the sentence with key `key`
ScoresOfSentence(key) ==
    {result[all_tokens[i].position] :
        i \in {j \in DOMAIN all_tokens :
                  /\ SentenceKey(all_tokens[j]) = key
                  /\ all_tokens[j].position \in DOMAIN result}}

\* the sentences of a list with their peak scores, order left aside
Peaks(list) ==
    {<<list[i].turn_id, list[i].sentence_id, list[i].role, list[i].score>> :
        i \in DOMAIN list}

\* C9: the score of every ScoredSentence is the maximum of the scores of its
\* tokens, and no reordering of the token list changes the peak of any
\* sentence; a sentence whose tokens score 10, 50 and 5 has peak 50.
C9_PeakIsMax ==
    pc = "done" =>
        /\ \A i \in DOMAIN sentences :
               LET token_scores ==
                       ScoresOfSentence(<<sentences[i].turn_id,
                                          sentences[i].sentence_id,
                                          sentences[i].role>>)
               IN /\ sentences[i].score = SetMax(token_scores)
                  /\ token_scores = {10, 50, 5} => sentences[i].score = 50
        /\ \A f \in Perms(Len(all_tokens)) :
               Peaks(GroupTokensBySentence(Permuted(all_tokens, f), result,
                                           FALSE))
                   = Peaks(sentences)

\* a sentence whose tokens score 10, 50, 5 in this order was given peak 50
C9_Witness ==
    /\ pc = "done"
    /\ \E i \in DOMAIN sentences :
           /\ sentences[i].token_count = 3
           /\ [j \in 1..3 |-> sentences[i].tokens[j].score] = <<10, 50, 5>>
           /\ sentences[i].score = 50

\* the tokens of the token list that have a score, as a set of indices
ScoredTokens == {i \in DOMAIN all_tokens : all_tokens[i].position \in DOMAIN result}

\* the (turn_id, sentence_id, role) of token i
KeyOfToken(i) ==
    <<all_tokens[i].turn_id, all_tokens[i].sentence_id,
      all_tokens[i].message_role>>

\* the (turn_id, sentence_id, role) of the ScoredSentence at index k
KeyOfSentence(k) ==
    <<sentences[k].turn_id, sentences[k].sentence_id, sentences[k].role>>

\* C24: the Sentence Aggregator returns exactly one ScoredSentence per
\* distinct (turn_id, sentence_id, role) among the scored tokens, two scored
\* tokens are in the same ScoredSentence exactly when they agree on all
\* three components, and the list is in non-increasing order of peak score.
C24_OneSentencePerKey ==
    pc = "done" =>
        /\ \A k, m \in DOMAIN sentences :
               k # m => KeyOfSentence(k) # KeyOfSentence(m)
        /\ {KeyOfSentence(k) : k \in DOMAIN sentences}
               = {KeyOfToken(i) : i \in ScoredTokens}
        /\ \A k \in DOMAIN sentences :
               {sentences[k].tokens[j].position : j \in DOMAIN sentences[k].tokens}
                   = {all_tokens[i].position :
                        i \in {j \in ScoredTokens : KeyOfToken(j) = KeyOfSentence(k)}}
        /\ \A k \in DOMAIN sentences :
               sentences[k].token_count
                   = Cardinality({j \in ScoredTokens :
                                     KeyOfToken(j) = KeyOfSentence(k)})
        /\ \A k, m \in DOMAIN sentences :
               k < m => ~Less(strategy = "cumulative", sentences[k].score,
                              sentences[m].score)

\* two sentences were returned, one of them with two tokens, and the
\* sentence of the first token of the list is ranked last
C24_Witness ==
    /\ pc = "done"
    /\ Len(sentences) = 2
    /\ sentences[1].score > sentences[2].score
    /\ sentences[1].token_count = 2
    /\ 1 \in ScoredTokens
    /\ KeyOfToken(1) = KeyOfSentence(2)

====
